---- MODULE Spec2Model ----
(***************************************************************************)
(* Order and inventory engine of BackEndCheosCafe                          *)
(* (src/src/controllers/orderController.ts).                               *)
(*                                                                         *)
(* Every request handler is an async function; the Node event loop runs    *)
(* one handler at a time and switches handlers only at an `await`.  Each   *)
(* action below is therefore one awaited store call together with the      *)
(* synchronous code that follows it up to the next await.                  *)
(*                                                                         *)
(* Money is in whole pesos.  The catalogue prices and the discount values  *)
(* of the model are multiples of 1000 and whole percentages, so every      *)
(* amount the handlers compute is a whole number of pesos.                 *)
(***************************************************************************)
EXTENDS Integers, Sequences, FiniteSets, TLC

(***************************************************************************)
(* Bounds                                                                  *)
(***************************************************************************)
\* requests issued in one behaviour
MaxRequests == 3
\* requests that may be between their first and last await at once
MaxInFlight == 2
\* order-number suffixes that Math.random() can draw (10000 in the code)
NumSuffixes == 2
\* stock of every product at start
InitStock == 5
\* calls of the authentication service in one behaviour
MaxCalls == 3
\* seconds the clock may advance during a behaviour
MaxClock == 1

(***************************************************************************)
(* Catalogue, users, discount codes                                        *)
(***************************************************************************)
NoProduct == "ghost"

Products == {"p1", "p2", "p3"}

\* rows of the product table other than stock, which is the variable below
ProductTable ==
  [p \in Products |->
     CASE p = "p1" -> [price |-> 50000, active |-> TRUE]
       [] p = "p2" -> [price |-> 25000, active |-> TRUE]
       [] OTHER    -> [price |-> 30000, active |-> FALSE]]

\* the token payload req.user: userId and role
Callers ==
  { [userId |-> "u1", role |-> "customer"],
    [userId |-> "u2", role |-> "customer"],
    [userId |-> "a1", role |-> "admin"],
    [userId |-> "a2", role |-> "ADMIN"] }

CreateCallers == { c \in Callers : c.userId = "u1" }

NoCaller == [userId |-> "none", role |-> "none"]

\* the callers of the administrative routes in the model
AdminRouteCallers == { c \in Callers : c.userId \in {"a1", "a2"} }

NoCode == "none"

\* the clock reading `new Date()` of the discount check
Now == 5

DiscountCodes ==
  {"SAVE10", "FIXED5K", "CAPPED15", "MIN60", "OFF", "OLD", "EARLY", "BIG60K"}

\* a code no row of the discountCode table has
NoSuchCode == "NOPE"

\* a 10 percent code, uncapped and always in its window
DiscountRow ==
  [type |-> "PERCENTAGE", value |-> 10, minAmount |-> 20000,
   maxDiscount |-> 0, maxUses |-> 0, active |-> TRUE,
   validFrom |-> 0, validUntil |-> 10]

\* rows of the discountCode table other than usedCount; 0 stands for null
DiscountTable ==
  [c \in DiscountCodes |->
     CASE c = "SAVE10"   -> [DiscountRow EXCEPT !.maxUses = 1]
       [] c = "FIXED5K"  -> [DiscountRow EXCEPT !.type = "FIXED_AMOUNT",
                                                !.value = 5000,
                                                !.minAmount = 30000]
       [] c = "CAPPED15" -> [DiscountRow EXCEPT !.value = 15,
                                                !.minAmount = 40000,
                                                !.maxDiscount = 10000]
       [] c = "MIN60"    -> [DiscountRow EXCEPT !.minAmount = 60000]
       [] c = "OFF"      -> [DiscountRow EXCEPT !.active = FALSE]
       [] c = "OLD"      -> [DiscountRow EXCEPT !.validUntil = 3]
       [] c = "BIG60K"   -> [DiscountRow EXCEPT !.type = "FIXED_AMOUNT",
                                                !.value = 60000,
                                                !.minAmount = 0]
       [] OTHER          -> [DiscountRow EXCEPT !.validFrom = 7]]

Item(p, q) == [productId |-> p, quantity |-> q]

\* the bodies a CreateOrder request may carry: item list and discount code
CreateInputs ==
  { [items |-> <<Item("p1", 3)>>, code |-> NoCode],
    [items |-> <<Item("p2", 2), Item("p1", 1)>>, code |-> "SAVE10"],
    [items |-> <<Item("p3", 1)>>, code |-> NoCode],
    [items |-> <<Item("p2", 1), Item(NoProduct, 1)>>, code |-> NoCode],
    [items |-> <<Item("p2", 1), Item("p1", InitStock + 1)>>, code |-> NoCode] }

\* the bodies of the requests that exercise the discount block: every code
\* of the table and an unknown one on a subtotal of 50000, and the capped
\* percentage code on a subtotal of 100000
DiscountInputs ==
  { [items |-> <<Item("p1", 1)>>, code |-> c] :
      c \in DiscountCodes \cup {NoSuchCode} }
  \cup { [items |-> <<Item("p2", 2), Item("p1", 1)>>, code |-> "CAPPED15"] }

\* bodies no validator of the route turns away: one product in two lines,
\* each within the stock and together above it; a quantity of zero; a negative
\* quantity
UnvalidatedInputs ==
  { [items |-> <<Item("p1", InitStock), Item("p1", InitStock)>>, code |-> NoCode],
    [items |-> <<Item("p1", 0)>>, code |-> NoCode],
    [items |-> <<Item("p2", -2)>>, code |-> NoCode],
    [items |-> <<Item("p2", 1), Item("p1", 1)>>, code |-> NoCode] }

Suffixes == 0 .. (NumSuffixes - 1)

PaymentStatuses == {"PENDING", "APPROVED", "REJECTED", "REFUNDED"}
DeliveryStatuses == {"PENDING", "PROCESSING", "SHIPPED", "DELIVERED", "CANCELLED"}

\* the statuses the administrative requests of the model carry
DeliveryInputs == {"PENDING", "SHIPPED", "DELIVERED"}
PaymentInputs == {"APPROVED", "REJECTED"}

NoReason == "none"
Reasons == {NoReason, "changed my mind"}

Reqs == 1 .. MaxRequests

\* the order ids a lifecycle request may name
OrderIds == 1 .. (MaxRequests - 1)

(***************************************************************************)
(* State                                                                   *)
(***************************************************************************)
VARIABLES
  stock,          \* product.stock, by product id
  usedCount,      \* discountCode.usedCount, by code
  orders,         \* the order table with its items: a sequence, order id = index
  req,            \* the request handlers: locals and position, by request
  refreshTokens,  \* the refreshToken table: the set of stored tokens
  clock,          \* the second `iat` of a token signed now carries
  auth            \* the calls of the authentication service, by call

\* the state of the order engine and the state of the authentication service
orderVars == <<stock, usedCount, orders, req>>
authVars == <<refreshTokens, clock, auth>>

vars == <<stock, usedCount, orders, req, refreshTokens, clock, auth>>

\* a handler that has not been invoked
Idle ==
  [op |-> "none", pc |-> "idle", caller |-> NoCaller, items |-> <<>>,
   code |-> NoCode, i |-> 0, orderItems |-> <<>>, subtotal |-> 0,
   discount |-> 0, orderNumber |-> -1, orderId |-> 0, status |-> "none",
   reason |-> NoReason, snapStatus |-> "none", snapNotes |-> <<>>,
   snapItems |-> <<>>, result |-> "none"]

\* the users that hold an account
AuthUsers == {"u1", "u2"}

\* the calls of the authentication service in one behaviour
Calls == 1 .. MaxCalls

\* a refresh token is the signature of its payload: the user and the second
\* it was signed in (iat, and with it exp); two tokens signed for one user in
\* one second are the same string
Token(u, t) == [userId |-> u, iat |-> t]

NoToken == [userId |-> "none", iat |-> -1]

\* a call that has not been made
AuthIdle ==
  [op |-> "none", pc |-> "idle", userId |-> "none", token |-> NoToken,
   newToken |-> NoToken, result |-> "none"]

Init ==
  /\ stock = [p \in Products |-> InitStock]
  /\ usedCount = [c \in DiscountCodes |-> 0]
  /\ orders = <<>>
  /\ req = [r \in Reqs |-> Idle]
  /\ refreshTokens = {}
  /\ clock = 0
  /\ auth = [c \in Calls |-> AuthIdle]

InFlight(r) == req[r].pc \notin {"idle", "done"}
Done(r) == req[r].pc = "done"

\* requests are issued in the order of their ids
CanStart(r) ==
  /\ req[r].pc = "idle"
  /\ \A k \in Reqs : k < r => req[k].pc # "idle"
  /\ Cardinality({k \in Reqs : InFlight(k)}) < MaxInFlight

\* the handler returns: its locals are gone; what stays is the caller, the
\* request body of a createOrder, the order the request named or inserted,
\* and the response (result)
Finish(rec, res) ==
  [Idle EXCEPT !.op = rec.op, !.pc = "done", !.caller = rec.caller,
               !.items = rec.items, !.code = rec.code,
               !.orderId = rec.orderId, !.result = res]

(***************************************************************************)
(* createOrder                                                             *)
(***************************************************************************)
\* POST /orders: authenticateToken, then createOrder; nothing validates the body
StartCreateFrom(r, bodies) ==
  /\ CanStart(r)
  /\ \E c \in CreateCallers, body \in bodies :
       req' = [req EXCEPT ![r] =
                 [Idle EXCEPT !.op = "create", !.pc = "validate", !.caller = c,
                              !.items = body.items, !.code = body.code, !.i = 1]]
  /\ UNCHANGED <<stock, usedCount, orders, authVars>>

StartCreate(r) == StartCreateFrom(r, CreateInputs)

\* ValidateItem as a reserve-as-you-go loop: the stock of an accepted item is
\* taken at once, and a later rejection does not give it back
ValidateItemReserving(r) ==
  /\ req[r].op = "create" /\ req[r].pc = "validate"
  /\ LET rec == req[r]
         item == rec.items[rec.i]
         p == item.productId
         ok == p \in Products /\ ProductTable[p].active /\ stock[p] >= item.quantity
     IN  /\ req' = [req EXCEPT ![r] =
               IF p \notin Products THEN Finish(rec, "ProductNotFound")
               ELSE IF ~ProductTable[p].active THEN Finish(rec, "ProductInactive")
               ELSE IF stock[p] < item.quantity THEN Finish(rec, "InsufficientStock")
               ELSE [rec EXCEPT
                       !.subtotal = @ + ProductTable[p].price * item.quantity,
                       !.orderItems = Append(@, [productId |-> p,
                                                 quantity |-> item.quantity,
                                                 price |-> ProductTable[p].price,
                                                 total |-> ProductTable[p].price * item.quantity]),
                       !.i = IF rec.i = Len(rec.items) THEN 0 ELSE @ + 1,
                       !.pc = IF rec.i < Len(rec.items) THEN @
                              ELSE IF rec.code # NoCode THEN "discount"
                              ELSE "generate"]]
         /\ stock' = IF ok THEN [stock EXCEPT ![p] = @ - item.quantity] ELSE stock
  /\ UNCHANGED <<usedCount, orders, authVars>>

\* one turn of the validation loop: findUnique of the product, the three
\* checks, and the push of the order item; without a discount code the code
\* after the loop runs on to the first await of generateOrderNumber
ValidateItem(r) ==
  /\ req[r].op = "create" /\ req[r].pc = "validate"
  /\ LET rec == req[r]
         item == rec.items[rec.i]
         p == item.productId
     IN  req' = [req EXCEPT ![r] =
           IF p \notin Products THEN Finish(rec, "ProductNotFound")
           ELSE IF ~ProductTable[p].active THEN Finish(rec, "ProductInactive")
           ELSE IF stock[p] < item.quantity THEN Finish(rec, "InsufficientStock")
           ELSE LET itemTotal == ProductTable[p].price * item.quantity
                IN  [rec EXCEPT
                       !.subtotal = @ + itemTotal,
                       !.orderItems = Append(@, [productId |-> p,
                                                 quantity |-> item.quantity,
                                                 price |-> ProductTable[p].price,
                                                 total |-> itemTotal]),
                       !.i = IF rec.i = Len(rec.items) THEN 0 ELSE @ + 1,
                       !.pc = IF rec.i < Len(rec.items) THEN @
                              ELSE IF rec.code # NoCode THEN "discount"
                              ELSE "generate"]]
  /\ UNCHANGED <<stock, usedCount, orders, authVars>>

\* DiscountFor without the maxDiscount clamp
DiscountUnclamped(code, subtotal, used) ==
  IF code \notin DiscountCodes THEN 0
  ELSE LET d == DiscountTable[code]
       IN  IF /\ d.active
              /\ Now >= d.validFrom /\ Now <= d.validUntil
              /\ (d.maxUses = 0 \/ used < d.maxUses)
              /\ (d.minAmount = 0 \/ subtotal >= d.minAmount)
           THEN IF d.type = "PERCENTAGE"
                  THEN (subtotal * d.value) \div 100
                  ELSE d.value
           ELSE 0

\* the discount block of createOrder: findUnique of the code and the nested
\* checks; 0 in maxUses, minAmount and maxDiscount is falsy, as null is
DiscountFor(code, subtotal, used) ==
  IF code \notin DiscountCodes THEN 0
  ELSE LET d == DiscountTable[code]
           raw == IF d.type = "PERCENTAGE"
                    THEN (subtotal * d.value) \div 100
                    ELSE d.value
       IN  IF /\ d.active
              /\ Now >= d.validFrom /\ Now <= d.validUntil
              /\ (d.maxUses = 0 \/ used < d.maxUses)
              /\ (d.minAmount = 0 \/ subtotal >= d.minAmount)
           THEN IF d.maxDiscount # 0 /\ raw > d.maxDiscount
                  THEN d.maxDiscount
                  ELSE raw
           ELSE 0

Shipping == 5000

\* the tax taken on the subtotal, the discount forgotten
TaxOnSubtotal(subtotal, discount) == (subtotal * 19) \div 100

\* const tax = (subtotal - discount) * 0.19
TaxOf(subtotal, discount) == ((subtotal - discount) * 19) \div 100

\* const total = subtotal - discount + shipping + tax
TotalOf(subtotal, discount) ==
  subtotal - discount + Shipping + TaxOf(subtotal, discount)

ComputeDiscount(r) ==
  /\ req[r].op = "create" /\ req[r].pc = "discount"
  /\ LET rec == req[r]
         used == IF rec.code \in DiscountCodes THEN usedCount[rec.code] ELSE 0
     IN  req' = [req EXCEPT ![r] =
                   [rec EXCEPT !.discount = DiscountFor(rec.code, rec.subtotal, used),
                               !.pc = "generate"]]
  /\ UNCHANGED <<stock, usedCount, orders, authVars>>

\* prisma.order.findUnique({ where: { orderNumber } })
OrderNumberExists(n) == \E k \in 1 .. Len(orders) : orders[k].orderNumber = n

\* one turn of the while loop of generateOrderNumber: draw a suffix, assign
\* orderNumber, look it up; a taken number leaves `exists` true and the loop
\* draws again
GenerateOrderNumber(r) ==
  /\ req[r].op = "create" /\ req[r].pc = "generate"
  /\ \E n \in Suffixes :
       req' = [req EXCEPT ![r].orderNumber = n,
                          ![r].pc = IF OrderNumberExists(n) THEN "generate"
                                    ELSE "insert"]
  /\ UNCHANGED <<stock, usedCount, orders, authVars>>

\* no unique index: every insert is accepted
NoUniqueIndex(n) == FALSE

\* the unique index on order.orderNumber, which findUnique by orderNumber
\* relies on; a violation is Prisma error P2002
UniqueViolation(n) == OrderNumberExists(n)

NewOrder(rec) ==
  [orderNumber |-> rec.orderNumber, userId |-> rec.caller.userId,
   items |-> rec.orderItems, subtotal |-> rec.subtotal,
   discount |-> rec.discount, shipping |-> Shipping,
   tax |-> TaxOf(rec.subtotal, rec.discount),
   total |-> TotalOf(rec.subtotal, rec.discount),
   paymentStatus |-> "PENDING", deliveryStatus |-> "PENDING",
   deliveredAt |-> 0, notes |-> <<>>, discountCode |-> rec.code]

\* prisma.order.create with the nested items; a rejected insert throws and
\* asyncHandler hands the error to the error middleware (409)
InsertOrder(r) ==
  /\ req[r].op = "create" /\ req[r].pc = "insert"
  /\ LET rec == req[r]
     IN  IF UniqueViolation(rec.orderNumber)
           THEN /\ req' = [req EXCEPT ![r] = Finish(rec, "Conflict")]
                /\ UNCHANGED orders
           ELSE /\ orders' = Append(orders, NewOrder(rec))
                /\ req' = [req EXCEPT ![r].orderId = Len(orders) + 1,
                                      ![r].i = 1, ![r].pc = "decrement"]
  /\ UNCHANGED <<stock, usedCount, authVars>>

\* DecrementStock that counts a usage for every request that named a code
DecrementStockCountingAll(r) ==
  /\ req[r].op = "create" /\ req[r].pc = "decrement"
  /\ LET rec == req[r]
         item == rec.items[rec.i]
     IN  /\ stock' = [stock EXCEPT ![item.productId] = @ - item.quantity]
         /\ req' = [req EXCEPT ![r] =
              IF rec.i < Len(rec.items) THEN [rec EXCEPT !.i = @ + 1]
              ELSE IF rec.code \in DiscountCodes
                     THEN [rec EXCEPT !.i = 0, !.pc = "increment"]
                     ELSE Finish(rec, "Created")]
  /\ UNCHANGED <<usedCount, orders, authVars>>

\* one turn of the stock loop: product.update({ stock: { decrement } })
DecrementStock(r) ==
  /\ req[r].op = "create" /\ req[r].pc = "decrement"
  /\ LET rec == req[r]
         item == rec.items[rec.i]
     IN  /\ stock' = [stock EXCEPT ![item.productId] = @ - item.quantity]
         /\ req' = [req EXCEPT ![r] =
              IF rec.i < Len(rec.items) THEN [rec EXCEPT !.i = @ + 1]
              ELSE IF rec.code # NoCode /\ rec.discount > 0
                     THEN [rec EXCEPT !.i = 0, !.pc = "increment"]
                     ELSE Finish(rec, "Created")]
  /\ UNCHANGED <<usedCount, orders, authVars>>

\* discountCode.update({ usedCount: { increment: 1 } })
IncrementUsage(r) ==
  /\ req[r].op = "create" /\ req[r].pc = "increment"
  /\ usedCount' = [usedCount EXCEPT ![req[r].code] = @ + 1]
  /\ req' = [req EXCEPT ![r] = Finish(req[r], "Created")]
  /\ UNCHANGED <<stock, orders, authVars>>

createOrder(r) ==
  \/ StartCreate(r)
  \/ ValidateItem(r)
  \/ ComputeDiscount(r)
  \/ GenerateOrderNumber(r)
  \/ InsertOrder(r)
  \/ DecrementStock(r)
  \/ IncrementUsage(r)

(***************************************************************************)
(* The administrative routes                                               *)
(***************************************************************************)
\* requireAdmin: the token's role must be 'admin'
requireAdmin(c) == c.role = "admin"

\* PATCH /orders/:id/payment-status; a caller requireAdmin turns away gets 403
StartPayment(r) ==
  /\ CanStart(r)
  /\ \E c \in AdminRouteCallers, id \in OrderIds, st \in PaymentInputs :
       LET rec == [Idle EXCEPT !.op = "payment", !.pc = "find", !.caller = c,
                               !.orderId = id, !.status = st]
       IN  req' = [req EXCEPT ![r] =
                     IF requireAdmin(c) THEN rec ELSE Finish(rec, "Forbidden")]
  /\ UNCHANGED <<stock, usedCount, orders, authVars>>

\* prisma.order.findUnique({ where: { id } })
OrderExists(id) == id \in 1 .. Len(orders)

FindForPayment(r) ==
  /\ req[r].op = "payment" /\ req[r].pc = "find"
  /\ req' = [req EXCEPT ![r] =
               IF OrderExists(req[r].orderId) THEN [req[r] EXCEPT !.pc = "update"]
               ELSE Finish(req[r], "NotFound")]
  /\ UNCHANGED <<stock, usedCount, orders, authVars>>

WritePayment(r) ==
  /\ req[r].op = "payment" /\ req[r].pc = "update"
  /\ orders' = [orders EXCEPT ![req[r].orderId].paymentStatus = req[r].status]
  /\ req' = [req EXCEPT ![r] = Finish(req[r], "Ok")]
  /\ UNCHANGED <<stock, usedCount, authVars>>

updatePaymentStatus(r) == StartPayment(r) \/ FindForPayment(r) \/ WritePayment(r)

\* PATCH /orders/:id/delivery-status
StartDelivery(r) ==
  /\ CanStart(r)
  /\ \E c \in AdminRouteCallers, id \in OrderIds, st \in DeliveryInputs :
       LET rec == [Idle EXCEPT !.op = "delivery", !.pc = "find", !.caller = c,
                               !.orderId = id, !.status = st]
       IN  req' = [req EXCEPT ![r] =
                     IF requireAdmin(c) THEN rec ELSE Finish(rec, "Forbidden")]
  /\ UNCHANGED <<stock, usedCount, orders, authVars>>

FindForDelivery(r) ==
  /\ req[r].op = "delivery" /\ req[r].pc = "find"
  /\ req' = [req EXCEPT ![r] =
               IF OrderExists(req[r].orderId) THEN [req[r] EXCEPT !.pc = "update"]
               ELSE Finish(req[r], "NotFound")]
  /\ UNCHANGED <<stock, usedCount, orders, authVars>>

\* the update of updateDeliveryStatus; `new Date()` is modelled by the id of
\* the request that takes it, so two requests never take the same timestamp
WriteDelivery(r) ==
  /\ req[r].op = "delivery" /\ req[r].pc = "update"
  /\ orders' = [orders EXCEPT
                  ![req[r].orderId].deliveryStatus = req[r].status,
                  ![req[r].orderId].deliveredAt =
                     IF req[r].status = "DELIVERED" THEN r ELSE @]
  /\ req' = [req EXCEPT ![r] = Finish(req[r], "Ok")]
  /\ UNCHANGED <<stock, usedCount, authVars>>

updateDeliveryStatus(r) == StartDelivery(r) \/ FindForDelivery(r) \/ WriteDelivery(r)

(***************************************************************************)
(* cancelOrder                                                             *)
(***************************************************************************)
\* PATCH /orders/:id/cancel: authenticateToken only
StartCancel(r) ==
  /\ CanStart(r)
  /\ \E c \in Callers, id \in OrderIds, why \in Reasons :
       req' = [req EXCEPT ![r] =
                 [Idle EXCEPT !.op = "cancel", !.pc = "find", !.caller = c,
                              !.orderId = id, !.reason = why]]
  /\ UNCHANGED <<stock, usedCount, orders, authVars>>

\* the where clause without the owner: any caller sees any order
CancelVisibleToAll(c, id) == OrderExists(id)

\* the where clause of cancelOrder: the id, and the caller's userId unless the
\* role is 'ADMIN'
CancelVisible(c, id) ==
  /\ OrderExists(id)
  /\ (c.role # "ADMIN" => orders[id].userId = c.userId)

\* the where clause of getOrderById, and the filter of getOrders: the caller's
\* userId unless the role is 'ADMIN'
ReadVisible(c, id) ==
  /\ OrderExists(id)
  /\ (c.role # "ADMIN" => orders[id].userId = c.userId)

\* FindForCancel with a state check that forgets DELIVERED
FindForCancelOnlyCancelled(r) ==
  /\ req[r].op = "cancel" /\ req[r].pc = "find"
  /\ LET rec == req[r]
         id == rec.orderId
     IN  req' = [req EXCEPT ![r] =
           IF ~CancelVisible(rec.caller, id) THEN Finish(rec, "NotFound")
           ELSE IF orders[id].deliveryStatus = "CANCELLED"
                  THEN Finish(rec, "InvalidStateTransition")
           ELSE [rec EXCEPT !.snapStatus = orders[id].deliveryStatus,
                            !.snapNotes = orders[id].notes,
                            !.snapItems = orders[id].items,
                            !.pc = "update"]]
  /\ UNCHANGED <<stock, usedCount, orders, authVars>>

\* findUnique with the items, then the state check
FindForCancel(r) ==
  /\ req[r].op = "cancel" /\ req[r].pc = "find"
  /\ LET rec == req[r]
         id == rec.orderId
     IN  req' = [req EXCEPT ![r] =
           IF ~CancelVisible(rec.caller, id) THEN Finish(rec, "NotFound")
           ELSE IF orders[id].deliveryStatus \in {"DELIVERED", "CANCELLED"}
                  THEN Finish(rec, "InvalidStateTransition")
           ELSE [rec EXCEPT !.snapStatus = orders[id].deliveryStatus,
                            !.snapNotes = orders[id].notes,
                            !.snapItems = orders[id].items,
                            !.pc = "update"]]
  /\ UNCHANGED <<stock, usedCount, orders, authVars>>

\* WriteCancel that also marks the payment REFUNDED
WriteCancelRefunding(r) ==
  /\ req[r].op = "cancel" /\ req[r].pc = "update"
  /\ LET rec == req[r]
     IN  /\ orders' = [orders EXCEPT
                         ![rec.orderId].deliveryStatus = "CANCELLED",
                         ![rec.orderId].paymentStatus = "REFUNDED",
                         ![rec.orderId].notes =
                            IF rec.reason # NoReason
                              THEN Append(rec.snapNotes, rec.reason)
                              ELSE rec.snapNotes]
         /\ req' = [req EXCEPT ![r].i = 1, ![r].pc = "restore"]
  /\ UNCHANGED <<stock, usedCount, authVars>>

\* the update of cancelOrder: the status, and the notes built from the order
\* as it was read
WriteCancel(r) ==
  /\ req[r].op = "cancel" /\ req[r].pc = "update"
  /\ LET rec == req[r]
     IN  /\ orders' = [orders EXCEPT
                         ![rec.orderId].deliveryStatus = "CANCELLED",
                         ![rec.orderId].notes =
                            IF rec.reason # NoReason
                              THEN Append(rec.snapNotes, rec.reason)
                              ELSE rec.snapNotes]
         /\ req' = [req EXCEPT ![r].i = 1, ![r].pc = "restore"]
  /\ UNCHANGED <<stock, usedCount, authVars>>

\* RestoreStock that gives back the first item only
RestoreFirstItemOnly(r) ==
  /\ req[r].op = "cancel" /\ req[r].pc = "restore"
  /\ LET rec == req[r]
         item == rec.snapItems[rec.i]
     IN  /\ stock' = [stock EXCEPT ![item.productId] = @ + item.quantity]
         /\ req' = [req EXCEPT ![r] = Finish(rec, "Cancelled")]
  /\ UNCHANGED <<usedCount, orders, authVars>>

\* one turn of the restore loop: product.update({ stock: { increment } })
RestoreStock(r) ==
  /\ req[r].op = "cancel" /\ req[r].pc = "restore"
  /\ LET rec == req[r]
         item == rec.snapItems[rec.i]
     IN  /\ stock' = [stock EXCEPT ![item.productId] = @ + item.quantity]
         /\ req' = [req EXCEPT ![r] =
              IF rec.i < Len(rec.snapItems) THEN [rec EXCEPT !.i = @ + 1]
              ELSE Finish(rec, "Cancelled")]
  /\ UNCHANGED <<usedCount, orders, authVars>>

cancelOrder(r) ==
  StartCancel(r) \/ FindForCancel(r) \/ WriteCancel(r) \/ RestoreStock(r)

(***************************************************************************)
(* The authentication service: login, refresh, logout, changePassword      *)
(***************************************************************************)
AuthInFlight(c) == auth[c].pc \notin {"idle", "done"}
AuthDone(c) == auth[c].pc = "done"

\* calls are made in the order of their ids
CanStartAuth(c) ==
  /\ auth[c].pc = "idle"
  /\ \A k \in Calls : k < c => auth[k].pc # "idle"
  /\ Cardinality({k \in Calls : AuthInFlight(k)}) < MaxInFlight

\* the call returns or throws: what stays is the call, its user, the token it
\* presented, the token it returned and its outcome
AuthFinish(rec, res) ==
  [AuthIdle EXCEPT !.op = rec.op, !.pc = "done", !.userId = rec.userId,
                   !.token = rec.token,
                   !.newToken = IF res = "Ok" THEN rec.newToken ELSE NoToken,
                   !.result = res]

\* the refresh tokens clients hold: those a login or a refresh has returned
Presentable ==
  { auth[k].newToken :
      k \in { c \in Calls : /\ AuthDone(c) /\ auth[c].result = "Ok"
                            /\ auth[c].op \in {"login", "refresh"} } }

\* the seconds pass
Tick ==
  /\ clock < MaxClock
  /\ clock' = clock + 1
  /\ UNCHANGED <<refreshTokens, auth, orderVars>>

\* authService.login up to the password check: user.findUnique and
\* passwordUtils.verify; wrong credentials throw
StartLogin(c) ==
  /\ CanStartAuth(c)
  /\ \E u \in AuthUsers, valid \in BOOLEAN :
       LET rec == [AuthIdle EXCEPT !.op = "login", !.pc = "generate",
                                   !.userId = u]
       IN  auth' = [auth EXCEPT ![c] =
                      IF valid THEN rec
                      ELSE AuthFinish(rec, "InvalidCredentials")]
  /\ UNCHANGED <<refreshTokens, clock, orderVars>>

\* generateTokenPair, then refreshTokenUtils.store up to its first await
LoginGenerate(c) ==
  /\ auth[c].op = "login" /\ auth[c].pc = "generate"
  /\ auth' = [auth EXCEPT ![c].newToken = Token(auth[c].userId, clock),
                          ![c].pc = "delete"]
  /\ UNCHANGED <<refreshTokens, clock, orderVars>>

\* refreshTokenUtils.store: refreshToken.deleteMany({ where: { userId } })
StoreDelete(c) ==
  /\ auth[c].op \in {"login", "refresh"} /\ auth[c].pc = "delete"
  /\ refreshTokens' = { t \in refreshTokens : t.userId # auth[c].userId }
  /\ auth' = [auth EXCEPT ![c].pc = "create"]
  /\ UNCHANGED <<clock, orderVars>>

\* refreshToken.token is a unique key (findUnique({ where: { token } })): the
\* insert of a token that is stored throws
TokenTaken(t) == t \in refreshTokens

\* refreshTokenUtils.store: refreshToken.create; then the call returns its
\* tokens, or store rethrows
StoreCreate(c) ==
  /\ auth[c].op \in {"login", "refresh"} /\ auth[c].pc = "create"
  /\ IF TokenTaken(auth[c].newToken)
       THEN /\ auth' = [auth EXCEPT ![c] = AuthFinish(auth[c], "Error")]
            /\ UNCHANGED refreshTokens
       ELSE /\ refreshTokens' = refreshTokens \cup {auth[c].newToken}
            /\ auth' = [auth EXCEPT ![c] = AuthFinish(auth[c], "Ok")]
  /\ UNCHANGED <<clock, orderVars>>

login(c) == StartLogin(c) \/ LoginGenerate(c) \/ StoreDelete(c) \/ StoreCreate(c)

\* POST /auth/refresh with a token some client holds; verifyRefreshToken
\* decodes its user
StartRefresh(c) ==
  /\ CanStartAuth(c)
  /\ \E t \in Presentable :
       auth' = [auth EXCEPT ![c] =
                  [AuthIdle EXCEPT !.op = "refresh", !.pc = "validate",
                                   !.userId = t.userId, !.token = t]]
  /\ UNCHANGED <<refreshTokens, clock, orderVars>>

\* refreshTokenUtils.validate: findUnique of the token
RefreshValidate(c) ==
  /\ auth[c].op = "refresh" /\ auth[c].pc = "validate"
  /\ auth' = [auth EXCEPT ![c] =
                IF auth[c].token \in refreshTokens
                  THEN [auth[c] EXCEPT !.pc = "user"]
                  ELSE AuthFinish(auth[c], "Invalid")]
  /\ UNCHANGED <<refreshTokens, clock, orderVars>>

\* user.findUnique, generateTokenPair, then remove up to its await
RefreshGenerate(c) ==
  /\ auth[c].op = "refresh" /\ auth[c].pc = "user"
  /\ auth' = [auth EXCEPT ![c].newToken = Token(auth[c].userId, clock),
                          ![c].pc = "remove"]
  /\ UNCHANGED <<refreshTokens, clock, orderVars>>

\* refreshTokenUtils.remove: deleteMany({ where: { token } })
RefreshRemove(c) ==
  /\ auth[c].op = "refresh" /\ auth[c].pc = "remove"
  /\ refreshTokens' = refreshTokens \ {auth[c].token}
  /\ auth' = [auth EXCEPT ![c].pc = "delete"]
  /\ UNCHANGED <<clock, orderVars>>

refresh(c) ==
  \/ StartRefresh(c)
  \/ RefreshValidate(c)
  \/ RefreshGenerate(c)
  \/ RefreshRemove(c)
  \/ StoreDelete(c)
  \/ StoreCreate(c)

\* POST /auth/logout with a token some client holds
StartLogout(c) ==
  /\ CanStartAuth(c)
  /\ \E t \in Presentable :
       auth' = [auth EXCEPT ![c] =
                  [AuthIdle EXCEPT !.op = "logout", !.pc = "remove",
                                   !.userId = t.userId, !.token = t]]
  /\ UNCHANGED <<refreshTokens, clock, orderVars>>

LogoutRemove(c) ==
  /\ auth[c].op = "logout" /\ auth[c].pc = "remove"
  /\ refreshTokens' = refreshTokens \ {auth[c].token}
  /\ auth' = [auth EXCEPT ![c] = AuthFinish(auth[c], "Ok")]
  /\ UNCHANGED <<clock, orderVars>>

logout(c) == StartLogout(c) \/ LogoutRemove(c)

\* changePassword up to the update of the password: the lookups, the check
\* of the current password (a wrong one answers 400), the hash, user.update
StartChangePassword(c) ==
  /\ CanStartAuth(c)
  /\ \E u \in AuthUsers, valid \in BOOLEAN :
       LET rec == [AuthIdle EXCEPT !.op = "changePassword",
                                   !.pc = "removeAll", !.userId = u]
       IN  auth' = [auth EXCEPT ![c] =
                      IF valid THEN rec
                      ELSE AuthFinish(rec, "InvalidPassword")]
  /\ UNCHANGED <<refreshTokens, clock, orderVars>>

\* refreshTokenUtils.removeAllForUser, then 200
RemoveAllForUser(c) ==
  /\ auth[c].op = "changePassword" /\ auth[c].pc = "removeAll"
  /\ refreshTokens' = { t \in refreshTokens : t.userId # auth[c].userId }
  /\ auth' = [auth EXCEPT ![c] = AuthFinish(auth[c], "Ok")]
  /\ UNCHANGED <<clock, orderVars>>

changePassword(c) == StartChangePassword(c) \/ RemoveAllForUser(c)

AuthStep(c) == login(c) \/ refresh(c) \/ logout(c) \/ changePassword(c)

NextAuth == Tick \/ \E c \in Calls : AuthStep(c)

\* the calls of the authentication service arrive at any time and interleave
\* at their awaits
SpecAuth == Init /\ [][NextAuth]_vars

(***************************************************************************)
(* Specifications                                                          *)
(***************************************************************************)
Step(r) ==
  \/ createOrder(r)
  \/ updatePaymentStatus(r)
  \/ updateDeliveryStatus(r)
  \/ cancelOrder(r)

Next == \E r \in Reqs : Step(r)

\* requests arrive at any time and interleave at their awaits
Spec == Init /\ [][Next]_vars

\* one request at a time: a request is issued only when no other is in flight
NextSeq == \E r \in Reqs : (\A k \in Reqs \ {r} : ~InFlight(k)) /\ Step(r)

SpecSeq == Init /\ [][NextSeq]_vars

\* concurrent CreateOrder requests alone
NextCreate == \E r \in Reqs : createOrder(r)

SpecCreate == Init /\ [][NextCreate]_vars

\* a createOrder handler that has been invoked runs on
ResumeCreate(r) ==
  \/ ValidateItem(r)
  \/ ComputeDiscount(r)
  \/ GenerateOrderNumber(r)
  \/ InsertOrder(r)
  \/ DecrementStock(r)
  \/ IncrementUsage(r)

\* the draw of generateOrderNumber hits a number no order has
DrawsFreeNumber(r) == GenerateOrderNumber(r) /\ req'[r].pc = "insert"

\* the event loop resumes every handler whose awaited call has returned, and
\* a uniform draw that can hit a free number infinitely often does hit one
SpecCreateFair ==
  /\ SpecCreate
  /\ \A r \in Reqs : WF_vars(ResumeCreate(r)) /\ SF_vars(DrawsFreeNumber(r))

\* CreateOrder requests with discount codes, one at a time
NextDisc ==
  \E r \in Reqs :
    /\ \A k \in Reqs \ {r} : ~InFlight(k)
    /\ \/ StartCreateFrom(r, DiscountInputs)
       \/ ValidateItem(r)
       \/ ComputeDiscount(r)
       \/ GenerateOrderNumber(r)
       \/ InsertOrder(r)
       \/ DecrementStock(r)
       \/ IncrementUsage(r)

SpecDisc == Init /\ [][NextDisc]_vars

\* CreateOrder requests with unvalidated bodies, one at a time
NextRaw ==
  \E r \in Reqs :
    /\ \A k \in Reqs \ {r} : ~InFlight(k)
    /\ \/ StartCreateFrom(r, UnvalidatedInputs)
       \/ ValidateItem(r)
       \/ GenerateOrderNumber(r)
       \/ InsertOrder(r)
       \/ DecrementStock(r)

SpecRaw == Init /\ [][NextRaw]_vars

\* an awaited write of createOrder rejects (the store is unreachable, the
\* statement times out): the handler throws, asyncHandler passes the error to
\* the error middleware, and nothing the handler has written is undone
StoreFault(r) ==
  /\ req[r].op = "create"
  /\ req[r].pc \in {"insert", "decrement", "increment"}
  /\ req' = [req EXCEPT ![r] = Finish(req[r], "Error")]
  /\ UNCHANGED <<stock, usedCount, orders, authVars>>

NextFault == Next \/ \E r \in Reqs : StoreFault(r)

SpecFault == Init /\ [][NextFault]_vars

(***************************************************************************)
(* Derived quantities                                                      *)
(***************************************************************************)
RECURSIVE QtyOf(_, _)
\* the quantity of product p over a list of items
QtyOf(items, p) ==
  IF items = <<>> THEN 0
  ELSE (IF Head(items).productId = p THEN Head(items).quantity ELSE 0)
       + QtyOf(Tail(items), p)

RECURSIVE SumOver(_, _, _)
\* the quantity of product p over the orders whose ids are in ids
SumOver(ids, k, p) ==
  IF k = 0 THEN 0
  ELSE (IF k \in ids THEN QtyOf(orders[k].items, p) ELSE 0) + SumOver(ids, k - 1, p)

OrderedQty(ids, p) == SumOver(ids, Len(orders), p)

AllOrders == 1 .. Len(orders)

Quiescent == \A r \in Reqs : ~InFlight(r)

CreatedBy(r) == req[r].op = "create" /\ Done(r) /\ req[r].result = "Created"

\* the orders inserted by requests that answered 201
SucceededOrders == { req[r].orderId : r \in { k \in Reqs : CreatedBy(k) } }

CancelledBy(r) == req[r].op = "cancel" /\ Done(r) /\ req[r].result = "Cancelled"

NoCancelIssued == \A r \in Reqs : req[r].op # "cancel"

RECURSIVE RestoredQty(_, _)
\* the quantity of product p over the orders of the cancel requests 1..n
\* that answered 200, one term per request
RestoredQty(n, p) ==
  IF n = 0 THEN 0
  ELSE (IF CancelledBy(n) THEN QtyOf(orders[req[n].orderId].items, p) ELSE 0)
       + RestoredQty(n - 1, p)

(***************************************************************************)
(* Stock ledger under concurrent createOrder                               *)
(***************************************************************************)
\* C1: under any interleaving of concurrent CreateOrder requests the stock of
\* a product is never negative, and once every request has finished (none of
\* them a cancellation) the stock is the initial stock minus the quantities
\* of the orders of the requests that succeeded.
C1_StockLedger ==
  /\ \A p \in Products : stock[p] >= 0
  /\ (Quiescent /\ NoCancelIssued) =>
       \A p \in Products : stock[p] = InitStock - OrderedQty(SucceededOrders, p)

\* the body of the scenario of C2: three of p1
ThreeOfP1 == <<Item("p1", 3)>>

\* C2: when exactly two requests have been issued and answered, both
\* CreateOrder for 3 of one product whose stock 3 fits once but not twice, one
\* of them succeeded, the other answered InsufficientStock, and the stock is
\* the initial stock minus 3 (runs in which the two drew one order number
\* are left aside).
C2_OneOfTwoSucceeds ==
  \A r1, r2 \in Reqs :
    ( /\ r1 < r2
      /\ 3 <= InitStock /\ InitStock < 6
      /\ \A k \in Reqs : k \in {r1, r2} <=> req[k].pc # "idle"
      /\ Done(r1) /\ Done(r2)
      /\ req[r1].op = "create" /\ req[r1].items = ThreeOfP1
      /\ req[r2].op = "create" /\ req[r2].items = ThreeOfP1
      /\ "Conflict" \notin {req[r1].result, req[r2].result} )
    => /\ {req[r1].result, req[r2].result} = {"Created", "InsufficientStock"}
       /\ stock["p1"] = InitStock - 3

\* C3: the usage counter of a capped discount code never exceeds its cap.
C3_UsageCap ==
  \A c \in DiscountCodes :
    DiscountTable[c].maxUses # 0 => usedCount[c] <= DiscountTable[c].maxUses

(***************************************************************************)
(* Order numbers                                                           *)
(***************************************************************************)
\* C4: no two persisted orders share an order number.
C4_OrderNumbersUnique ==
  \A j, k \in AllOrders : j # k => orders[j].orderNumber # orders[k].orderNumber

\* two generators passed the existence check with one number; the second
\* insert was turned away and one order holds the number
C4_Witness ==
  \E r \in Reqs :
    /\ req[r].op = "create" /\ Done(r) /\ req[r].result = "Conflict"
    /\ Len(orders) >= 1

(***************************************************************************)
(* Cancellation                                                            *)
(***************************************************************************)
Store == <<stock, usedCount, orders>>

\* request r takes a step
Acts(r) == req'[r] # req[r]

\* stock is what the persisted orders took, plus one restore per cancel
\* request that answered 200
RestoredPerCancel ==
  \A p \in Products :
    stock[p] = InitStock - OrderedQty(AllOrders, p) + RestoredQty(MaxRequests, p)

\* C5: with requests served one at a time, a cancel of a cancellable order
\* leaves it CANCELLED and adds to every product's stock exactly the
\* quantities of the order's items; a cancel that finds the order CANCELLED
\* answers InvalidStateTransition and changes no stock.
C5_CancelOnce ==
  [][ /\ Quiescent' => RestoredPerCancel'
      /\ \A r \in Reqs :
           /\ (Acts(r) /\ CancelledBy(r)')
                => orders'[req[r].orderId].deliveryStatus = "CANCELLED"
           /\ ( /\ Acts(r) /\ req[r].op = "cancel" /\ req[r].pc = "find"
                /\ CancelVisible(req[r].caller, req[r].orderId)
                /\ orders[req[r].orderId].deliveryStatus = "CANCELLED" )
                => /\ req'[r].pc = "done"
                   /\ req'[r].result = "InvalidStateTransition"
                   /\ UNCHANGED Store ]_vars

\* an order of two items was cancelled once and a second cancel was rejected
C5_Witness ==
  \E r1, r2 \in Reqs :
    /\ CancelledBy(r1)
    /\ req[r2].op = "cancel" /\ Done(r2)
    /\ req[r2].result = "InvalidStateTransition"
    /\ req[r2].orderId = req[r1].orderId
    /\ Len(orders[req[r1].orderId].items) = 2
    /\ \A p \in Products : stock[p] = InitStock

\* the orders that some cancel request cancelled
CancelledOrders == { req[r].orderId : r \in { k \in Reqs : CancelledBy(k) } }

\* C6: over any interleaving of cancel and delivery-status requests the
\* quantities of an order are added back to stock at most once, and once if
\* a cancel of it succeeded: when no request is in flight, stock is what the
\* persisted orders took plus, once, what the cancelled orders held.
C6_RestoredOnce ==
  Quiescent =>
    \A p \in Products :
      stock[p] = InitStock - OrderedQty(AllOrders, p)
                 + OrderedQty(CancelledOrders, p)

(***************************************************************************)
(* Atomicity of createOrder                                                *)
(***************************************************************************)
\* the orders of answered-201 requests that carry the discount of code c
Redeemed(c) ==
  { k \in SucceededOrders : orders[k].discountCode = c /\ orders[k].discount > 0 }

\* C7: a CreateOrder request that fails leaves no order, no stock decrement
\* and no usage increment behind; one that succeeds leaves all of them.
C7_CreateAtomic ==
  /\ \A r \in Reqs :
       (req[r].op = "create" /\ Done(r)) =>
          IF req[r].result = "Created"
            THEN req[r].orderId \in AllOrders
            ELSE req[r].orderId = 0
  /\ (Quiescent /\ NoCancelIssued) =>
       /\ \A p \in Products :
            stock[p] = InitStock - OrderedQty(SucceededOrders, p)
       /\ \A c \in DiscountCodes : usedCount[c] = Cardinality(Redeemed(c))

Rejections == {"ProductNotFound", "ProductInactive", "InsufficientStock"}

\* the answer an item calls for: the error of a missing product, of an
\* inactive one, of one whose stock is below the quantity; "none" otherwise
RejectionOf(item) ==
  IF item.productId \notin Products THEN "ProductNotFound"
  ELSE IF ~ProductTable[item.productId].active THEN "ProductInactive"
  ELSE IF stock[item.productId] < item.quantity THEN "InsufficientStock"
  ELSE "none"

\* C8: a CreateOrder request that rejects a line item, at any position,
\* answers the error and has changed nothing: the rejecting step leaves
\* stock, usage counters and orders alone, and the request wrote nothing
\* before it (every write of a createOrder is made at or after its insert,
\* and a request that has inserted never answers a rejection).
C8_RejectionWritesNothing ==
  [][ \A r \in Reqs :
        (Acts(r) /\ req[r].op = "create") =>
          /\ req'[r].result \in Rejections =>
               (UNCHANGED Store /\ req[r].orderId = 0 /\ req'[r].orderId = 0)
          /\ Store' # Store => req'[r].orderId # 0
          /\ req[r].pc = "validate" =>
               req'[r].result = RejectionOf(req[r].items[req[r].i]) ]_vars

\* the second item of a request was rejected and the store is as it began
C8_Witness ==
  \E r \in Reqs :
    /\ req[r].op = "create" /\ Done(r)
    /\ req[r].result = "InsufficientStock"
    /\ Len(req[r].items) = 2
    /\ orders = <<>>
    /\ \A p \in Products : stock[p] = InitStock

\* C10: a cancel by a caller entitled to the order that finds it DELIVERED
\* answers InvalidStateTransition and leaves the order and all stock as they
\* were.
C10_CancelDelivered ==
  [][ \A r \in Reqs :
        ( /\ Acts(r) /\ req[r].op = "cancel" /\ req[r].pc = "find"
          /\ CancelVisible(req[r].caller, req[r].orderId)
          /\ orders[req[r].orderId].deliveryStatus = "DELIVERED" )
        => /\ req'[r].pc = "done"
           /\ req'[r].result = "InvalidStateTransition"
           /\ UNCHANGED Store ]_vars

\* a delivered order was asked to be cancelled; it is still DELIVERED
C10_Witness ==
  \E r \in Reqs :
    /\ req[r].op = "cancel" /\ Done(r)
    /\ req[r].result = "InvalidStateTransition"
    /\ orders[req[r].orderId].deliveryStatus = "DELIVERED"
    /\ \A p \in Products :
         stock[p] = InitStock - OrderedQty(AllOrders, p)

(***************************************************************************)
(* Pricing                                                                 *)
(***************************************************************************)
RECURSIVE LineTotals(_)
\* the sum of quantity x unit price over a list of order items
LineTotals(items) ==
  IF items = <<>> THEN 0
  ELSE Head(items).quantity * Head(items).price + LineTotals(Tail(items))

TerminalDelivery == {"DELIVERED", "CANCELLED"}

\* request r reads order k in this step, as an administrative delivery update
\* or as a cancel by a caller entitled to the order
ReadsForTransition(r, k) ==
  /\ Acts(r) /\ req[r].pc = "find" /\ req[r].orderId = k
  /\ \/ req[r].op = "delivery"
     \/ req[r].op = "cancel" /\ CancelVisible(req[r].caller, k)

\* C11: once the delivery status of an order is DELIVERED or CANCELLED it
\* never changes again, and every UpdateDeliveryStatus or CancelOrder request
\* that finds the order in such a status answers InvalidStateTransition.
C11_TerminalDelivery ==
  [][ \A k \in AllOrders :
        orders[k].deliveryStatus \in TerminalDelivery =>
          /\ orders'[k].deliveryStatus = orders[k].deliveryStatus
          /\ \A r \in Reqs :
               ReadsForTransition(r, k) =>
                 req'[r].result = "InvalidStateTransition" ]_vars

\* the place of a status on the forward path; CANCELLED is not on it
Rank(st) ==
  CASE st = "PENDING" -> 1
    [] st = "PROCESSING" -> 2
    [] st = "SHIPPED" -> 3
    [] st = "DELIVERED" -> 4
    [] OTHER -> 0

\* C12: an administrative delivery update never moves the delivery status of
\* an order backward along PENDING, PROCESSING, SHIPPED, DELIVERED.
C12_DeliveryForward ==
  [][ \A r \in Reqs, k \in AllOrders :
        ( /\ Acts(r) /\ req[r].op = "delivery"
          /\ Rank(orders[k].deliveryStatus) > 0
          /\ Rank(orders'[k].deliveryStatus) > 0 )
        => Rank(orders'[k].deliveryStatus) >= Rank(orders[k].deliveryStatus) ]_vars

\* C13: the delivered timestamp is absent until the delivery status becomes
\* DELIVERED, is set by the step that makes it DELIVERED, and once set is
\* never changed.
C13_DeliveredAtOnce ==
  [][ \A k \in AllOrders :
        /\ orders[k].deliveredAt # 0 =>
             orders'[k].deliveredAt = orders[k].deliveredAt
        /\ ( /\ orders[k].deliveryStatus # "DELIVERED"
             /\ orders'[k].deliveryStatus = "DELIVERED" )
             => orders'[k].deliveredAt # 0 ]_vars

TerminalPayment == {"REJECTED", "REFUNDED"}

\* C18: once the payment status of an order is REJECTED or REFUNDED it never
\* changes again.
C18_TerminalPayment ==
  [][ \A k \in AllOrders :
        orders[k].paymentStatus \in TerminalPayment =>
          orders'[k].paymentStatus = orders[k].paymentStatus ]_vars

(***************************************************************************)
(* Discount codes                                                          *)
(***************************************************************************)
\* code c can be redeemed on a subtotal now: it is known, active, inside its
\* validity window, below its usage cap and the subtotal reaches its minimum
Redeemable(c, subtotal) ==
  /\ c \in DiscountCodes
  /\ DiscountTable[c].active
  /\ DiscountTable[c].validFrom <= Now /\ Now <= DiscountTable[c].validUntil
  /\ (DiscountTable[c].maxUses # 0 => usedCount[c] < DiscountTable[c].maxUses)
  /\ (DiscountTable[c].minAmount # 0 => subtotal >= DiscountTable[c].minAmount)

\* request r is a createOrder that takes its discount step
TakesDiscountStep(r) ==
  Acts(r) /\ req[r].op = "create" /\ req[r].pc = "discount"

\* C14: a CreateOrder whose code is unknown, inactive, outside its window, at
\* its cap or below its minimum goes on with discount 0; a request whose
\* discount is 0 never changes a usage counter, inserts its order with
\* discount 0 and answers Created.
C14_RejectedCodeDegrades ==
  [][ \A r \in Reqs :
        /\ (TakesDiscountStep(r) /\ ~Redeemable(req[r].code, req[r].subtotal))
             => (req'[r].discount = 0 /\ req'[r].pc = "generate")
        /\ ( /\ Acts(r) /\ req[r].op = "create" /\ req[r].code # NoCode
             /\ req[r].pc \in {"generate", "insert", "decrement"}
             /\ req[r].discount = 0 )
             => /\ usedCount' = usedCount
                /\ req'[r].pc \in {"generate", "insert", "decrement", "done"}
                /\ req'[r].pc = "done" => req'[r].result = "Created"
                /\ Len(orders') > Len(orders) =>
                     /\ orders'[Len(orders')].discount = 0
                     /\ req'[r].orderId = Len(orders') ]_vars

\* the capped code was redeemed once; a second request naming it got its order
\* with discount 0 and the counter stayed at the cap
C14_Witness ==
  \E r1, r2 \in Reqs :
    /\ r1 # r2 /\ CreatedBy(r1) /\ CreatedBy(r2)
    /\ req[r1].code = "SAVE10" /\ req[r2].code = "SAVE10"
    /\ orders[req[r1].orderId].discount = 5000
    /\ orders[req[r2].orderId].discount = 0
    /\ usedCount["SAVE10"] = 1

\* the raw discount of code c on a subtotal, times 100
RawDiscountTimes100(c, subtotal) ==
  IF DiscountTable[c].type = "PERCENTAGE"
    THEN subtotal * DiscountTable[c].value
    ELSE 100 * DiscountTable[c].value

\* C15: the discount of a redeemable code is subtotal x value / 100 for a
\* percentage code and value for a fixed-amount code, and maxDiscount instead
\* when a cap is configured and the raw discount exceeds it.
C15_DiscountAmount ==
  [][ \A r \in Reqs :
        (TakesDiscountStep(r) /\ Redeemable(req[r].code, req[r].subtotal)) =>
          LET c == req[r].code
              raw100 == RawDiscountTimes100(c, req[r].subtotal)
              cap == DiscountTable[c].maxDiscount
          IN  IF cap # 0 /\ raw100 > 100 * cap
                THEN req'[r].discount = cap
                ELSE 100 * req'[r].discount = raw100 ]_vars

\* 10 percent of 50000 is 5000, and 15 percent of 100000 is clamped to 10000
C15_Witness ==
  \E j, k \in AllOrders :
    /\ orders[j].discountCode = "SAVE10"
    /\ orders[j].subtotal = 50000 /\ orders[j].discount = 5000
    /\ orders[k].discountCode = "CAPPED15"
    /\ orders[k].subtotal = 100000 /\ orders[k].discount = 10000

\* the persisted orders to which the discount of code c was applied
DiscountedOrders(c) ==
  { k \in AllOrders : orders[k].discountCode = c /\ orders[k].discount > 0 }

\* C16: whenever no request is in flight, the usage counter of every code is
\* its initial value, 0, plus the number of persisted orders to which the
\* code's discount was applied.
C16_UsageMatchesOrders ==
  Quiescent =>
    \A c \in DiscountCodes : usedCount[c] = Cardinality(DiscountedOrders(c))

(***************************************************************************)
(* Who may cancel, and what each lifecycle request may touch               *)
(***************************************************************************)
\* the caller holds an administrator role, in either spelling the code uses
IsAdmin(c) == c.role \in {"admin", "ADMIN"}

\* request r is a cancel by a caller who is neither an administrator nor the
\* owner of the order it names
ForeignCancel(r) ==
  /\ req[r].op = "cancel"
  /\ ~IsAdmin(req[r].caller)
  /\ OrderExists(req[r].orderId)
  /\ orders[req[r].orderId].userId # req[r].caller.userId

\* C17: a cancel by a caller who is neither an administrator nor the owner
\* changes no order and no stock, and answers NotFound.
C17_ForeignCancel ==
  [][ \A r \in Reqs :
        (Acts(r) /\ ForeignCancel(r)) =>
          /\ UNCHANGED Store
          /\ req'[r].pc = "done" /\ req'[r].result = "NotFound" ]_vars

\* a customer asked to cancel another customer's pending order
C17_Witness ==
  \E r \in Reqs, k \in AllOrders :
    /\ req[r].op = "cancel" /\ Done(r) /\ req[r].orderId = k
    /\ req[r].caller.role = "customer"
    /\ req[r].caller.userId # orders[k].userId
    /\ req[r].result = "NotFound"
    /\ orders[k].deliveryStatus = "PENDING" /\ orders[k].notes = <<>>
    /\ \A p \in Products : stock[p] = InitStock - OrderedQty(AllOrders, p)

\* the fields of order k that belong to the delivery machine
DeliveryFields(k) == <<orders[k].deliveryStatus, orders[k].deliveredAt>>

\* C20: an UpdatePaymentStatus step changes no order's delivery status or
\* delivered timestamp and no stock; an UpdateDeliveryStatus or CancelOrder
\* step changes no order's payment status.
C20_Independent ==
  [][ \A r \in Reqs :
        /\ (Acts(r) /\ req[r].op = "payment") =>
             /\ stock' = stock
             /\ \A k \in AllOrders : DeliveryFields(k)' = DeliveryFields(k)
        /\ (Acts(r) /\ req[r].op \in {"delivery", "cancel"}) =>
             \A k \in AllOrders :
               orders'[k].paymentStatus = orders[k].paymentStatus ]_vars

\* a payment update and a delivery update or a cancel have both written one
\* order, and each status is as its own request left it
C20_Witness ==
  \E k \in AllOrders, r1, r2 \in Reqs :
    /\ req[r1].op = "payment" /\ Done(r1) /\ req[r1].result = "Ok"
    /\ req[r1].orderId = k
    /\ req[r2].op \in {"delivery", "cancel"} /\ Done(r2)
    /\ req[r2].result \in {"Ok", "Cancelled"} /\ req[r2].orderId = k
    /\ orders[k].paymentStatus \in PaymentInputs
    /\ orders[k].deliveryStatus \in {"SHIPPED", "DELIVERED", "CANCELLED"}

(***************************************************************************)
(* Termination of generateOrderNumber                                      *)
(***************************************************************************)
\* C19: generateOrderNumber always terminates: a createOrder that has entered
\* the generator leaves it, with a number or with a generation error, also
\* when every suffix is taken by a persisted order.
C19_GeneratorTerminates ==
  \A r \in Reqs : (req[r].pc = "generate") ~> (req[r].pc # "generate")

(***************************************************************************)
(* Order of the writes of createOrder                                      *)
(***************************************************************************)
\* C21: the stock of every line item is taken before the order is persisted:
\* at every moment what has been taken from each product's stock covers the
\* quantities of all persisted orders (createOrder requests alone).
C21_ReservedBeforePersisted ==
  \A p \in Products : InitStock - stock[p] >= OrderedQty(AllOrders, p)

(***************************************************************************)
(* Cancel against a concurrent delivery                                    *)
(***************************************************************************)
\* C22: a step of a cancel request that finds the order DELIVERED in the
\* store does not change its delivery status and adds no stock back.
C22_CancelKeepsDelivered ==
  [][ \A r \in Reqs :
        ( /\ Acts(r) /\ req[r].op = "cancel" /\ req[r].pc # "find"
          /\ orders[req[r].orderId].deliveryStatus = "DELIVERED" )
        => /\ orders'[req[r].orderId].deliveryStatus = "DELIVERED"
           /\ stock' = stock ]_vars

(***************************************************************************)
(* The administrator role                                                  *)
(***************************************************************************)
\* C23: every caller requireAdmin admits is an administrator for cancelOrder
\* and for the reads: it sees every order, and its cancel of an existing
\* order is never answered NotFound.
C23_AdminConsistent ==
  [][ /\ \A c \in Callers, k \in AllOrders :
           requireAdmin(c) => ReadVisible(c, k)
      /\ \A r \in Reqs :
           ( /\ Acts(r) /\ req[r].op = "cancel" /\ req[r].pc = "find"
             /\ requireAdmin(req[r].caller)
             /\ OrderExists(req[r].orderId) )
           => req'[r].result # "NotFound" ]_vars

(***************************************************************************)
(* Stock conservation                                                      *)
(***************************************************************************)
\* the persisted orders whose delivery status is not CANCELLED
LiveOrders == { k \in AllOrders : orders[k].deliveryStatus # "CANCELLED" }

\* C27: whenever no request is in flight, the stock of every product is its
\* initial stock minus the product's quantities over the persisted orders
\* that are not CANCELLED.
C27_StockConservation ==
  Quiescent =>
    \A p \in Products : stock[p] = InitStock - OrderedQty(LiveOrders, p)

(***************************************************************************)
(* Bodies the route does not validate                                      *)
(***************************************************************************)
\* C24: after any CreateOrder that ran alone no product's stock is negative,
\* also when its item list names one product in several lines.
C24_RepeatedLines ==
  Quiescent => \A p \in Products : stock[p] >= 0

\* C25: no step of a createOrder increases a product's stock, and no
\* persisted order has an item whose quantity is zero or less.
C25_PositiveQuantities ==
  [][ /\ \A r \in Reqs :
           (Acts(r) /\ req[r].op = "create") =>
             \A p \in Products : stock'[p] <= stock[p]
      /\ \A k \in 1 .. Len(orders') :
           \A j \in 1 .. Len(orders'[k].items) :
             orders'[k].items[j].quantity > 0 ]_vars

\* the items of order k all have a quantity above zero
WellFormedItems(k) ==
  \A j \in 1 .. Len(orders[k].items) : orders[k].items[j].quantity > 0

\* C26: every persisted order (of well-formed items) has
\* 0 <= discount <= subtotal, and its tax and its total are not negative.
C26_DiscountWithinSubtotal ==
  \A k \in AllOrders :
    WellFormedItems(k) =>
      /\ 0 <= orders[k].discount /\ orders[k].discount <= orders[k].subtotal
      /\ orders[k].tax >= 0 /\ orders[k].total >= 0

(***************************************************************************)
(* Refresh tokens                                                          *)
(***************************************************************************)
\* the stored refresh tokens of user u
TokensOf(u) == { t \in refreshTokens : t.userId = u }

\* no login and no refresh call is in flight
NoStoreInFlight ==
  \A c \in Calls : auth[c].op \in {"login", "refresh"} => ~AuthInFlight(c)

\* C28: whenever no login or refresh call is in flight, at most one refresh
\* token is stored per user.
C28_OneTokenPerUser ==
  NoStoreInFlight => \A u \in AuthUsers : Cardinality(TokensOf(u)) <= 1

\* the refresh calls that succeeded with token t and returned another token
RefreshedWith(t) ==
  { c \in Calls : /\ auth[c].op = "refresh" /\ AuthDone(c)
                  /\ auth[c].result = "Ok"
                  /\ auth[c].token = t /\ auth[c].newToken # t }

\* C29: a refresh token is single-use: at most one refresh call succeeds
\* with a given token and yields a new one.
C29_SingleUse ==
  \A t \in Presentable : Cardinality(RefreshedWith(t)) <= 1

\* call c takes a step
AuthActs(c) == auth'[c] # auth[c]

\* a changePassword of user u has completed
PasswordChanged(u) ==
  \E c \in Calls : /\ auth[c].op = "changePassword" /\ AuthDone(c)
                   /\ auth[c].result = "Ok" /\ auth[c].userId = u

====
